---- MODULE Spec2Model ----
(***************************************************************************)
(* Euclidean scoring heads of rudders (rudders/models/euclidean.py):       *)
(* SimpleFactor, TransE, MuREuclidean, RotRefEuclidean and                 *)
(* UserAttentiveEuclidean.  A model owns embedding tables; a forward pass  *)
(* looks rows of the tables up (get_lhs, get_rhs) and scores them          *)
(* (similarity_score).  Tensors are sequences: a vector is a sequence of   *)
(* Dims integers, a batch a sequence of vectors, a table a function from   *)
(* ids 0..n-1 to vectors.  Arithmetic is exact (integers), so the formulas *)
(* are those of real arithmetic, not of float32 rounding.                  *)
(***************************************************************************)
EXTENDS Integers, Sequences, FiniteSets, TLC

VARIABLES model, entities, relations, transforms, steps,
          pc, input_tensor, all_items, lhs, rhs, score

vars == <<model, entities, relations, transforms, steps,
          pc, input_tensor, all_items, lhs, rhs, score>>

tables == <<entities, relations, transforms>>

(* ------------------------------ bounds --------------------------------- *)
NEntities == 2
NRelations == 2
Dims == 2
MaxBatch == 2
MaxSteps == 2

Models == {"SimpleFactor", "TransE", "MuREuclidean", "RotRefEuclidean",
           "UserAttentiveEuclidean"}

(* Ids the driver may put in a row: every valid id and one past the table. *)
EntityIds == 0..NEntities
RelationIds == 0..NRelations

(* A batch of B rows (h, r, t) starting at one row; later rows shift it.   *)
Batch(h, r, t, B) ==
    [i \in 1..B |-> << (h + i - 1) % (NEntities + 1),
                       (r + i - 1) % (NRelations + 1),
                       (t + 2 * (i - 1)) % (NEntities + 1) >>]

Batches ==
    { Batch(h, r, t, B) : h \in EntityIds, r \in RelationIds,
                          t \in EntityIds, B \in 1..MaxBatch }

(* ------------------------- tensor primitives --------------------------- *)
RECURSIVE SumSeq(_)
SumSeq(s) == IF s = <<>> THEN 0 ELSE Head(s) + SumSeq(Tail(s))

Ok(v) == [err |-> FALSE, val |-> v]
Raise == [err |-> TRUE, val |-> <<>>]

(* input_tensor[:, c] with Python's 0-based, possibly negative, index c.   *)
Col(x, c) ==
    [i \in 1..Len(x) |-> x[i][IF c < 0 THEN Len(x[i]) + c + 1 ELSE c + 1]]

(* An embedding layer called on a vector of ids: the rows of the table, or *)
(* the tensor library's error when an id is not a row of the table.        *)
Embedding(table, ids) ==
    IF \A i \in 1..Len(ids) : ids[i] \in DOMAIN table
    THEN Ok([i \in 1..Len(ids) |-> table[ids[i]]])
    ELSE Raise

(* Elementwise sum and product of two B x dims tensors.                    *)
tf_add(a, b) ==
    [i \in 1..Len(a) |-> [k \in 1..Len(a[i]) |-> a[i][k] + b[i][k]]]

tf_multiply(a, b) ==
    [i \in 1..Len(a) |-> [k \in 1..Len(a[i]) |-> a[i][k] * b[i][k]]]

(* tf.reduce_sum(a, axis=-1, keepdims=True): B x dims -> B x 1.            *)
tf_reduce_sum(a) == [i \in 1..Len(a) |-> << SumSeq(a[i]) >>]

Dot(u, v) == SumSeq([k \in 1..Len(u) |-> u[k] * v[k]])

(* tf.matmul(a, tf.transpose(b)): (B1 x dims, B2 x dims) -> B1 x B2.       *)
tf_matmul_transpose(a, b) ==
    [i \in 1..Len(a) |-> [j \in 1..Len(b) |-> Dot(a[i], b[j])]]

Neg(m) == [i \in 1..Len(m) |-> [j \in 1..Len(m[i]) |-> 0 - m[i][j]]]

(* rudders.math.euclid.euclidean_sq_distance: |x|^2 + |y|^2 - 2 x.y, row   *)
(* by row (B x 1) or, with all_pairs, for every pair of rows (B1 x B2).    *)
euclidean_sq_distance(x, y, all_pairs) ==
    IF all_pairs
    THEN [i \in 1..Len(x) |-> [j \in 1..Len(y) |->
              Dot(x[i], x[i]) + Dot(y[j], y[j]) - 2 * Dot(x[i], y[j])]]
    ELSE [i \in 1..Len(x) |->
              << Dot(x[i], x[i]) + Dot(y[i], y[i]) - 2 * Dot(x[i], y[i]) >>]

(* rudders.math.euclid.euclidean_sq_distance_batched_all_pairs:            *)
(* x is B1 x dims, y is B1 x B2 x dims, the result B1 x B2.                *)
euclidean_sq_distance_batched_all_pairs(x, y) ==
    [i \in 1..Len(x) |-> [j \in 1..Len(y[i]) |->
        Dot(x[i], x[i]) + Dot(y[i][j], y[i][j]) - 2 * Dot(x[i], y[i][j])]]

(* ------------------------- construction -------------------------------- *)
(* CFModel.__init__ builds the entity and relation tables, MuRBase and     *)
(* RotRefBase add one parameter vector per relation; the initializer's     *)
(* draw is fixed here to values that differ by row and by dimension.       *)
HasTransforms(m) == m \in {"MuREuclidean", "RotRefEuclidean"}

InitEntities ==
    [e \in 0..(NEntities - 1) |-> [k \in 1..Dims |-> ((2 * e + k) % 5) - 2]]

InitRelations ==
    [r \in 0..(NRelations - 1) |-> [k \in 1..Dims |-> ((r + 2 * k) % 3) + 1]]

InitTransforms ==
    [r \in 0..(NRelations - 1) |-> [k \in 1..Dims |-> ((r + k) % 3) - 1]]

(* ------------------------- CFEuclideanBase ----------------------------- *)
CFEuclideanBase_get_rhs_clamped(x) ==
    LET ids == Col(x, -1)
    IN  Embedding(entities,
                  [i \in 1..Len(ids) |->
                      IF ids[i] > NEntities - 1 THEN NEntities - 1 ELSE ids[i]])

CFEuclideanBase_get_rhs(x) == Embedding(entities, Col(x, -1))

CFEuclideanBase_similarity_score(l, r, a) == Neg(euclidean_sq_distance(l, r, a))

(* ---------------------------- SimpleFactor ----------------------------- *)
SimpleFactor_get_lhs_concat(x) ==
    LET entities_ == Embedding(entities, Col(x, 0))
        relations_ == Embedding(relations, Col(x, 1))
    IN  IF entities_.err \/ relations_.err THEN Raise
        ELSE Ok([i \in 1..Len(x) |-> entities_.val[i] \o relations_.val[i]])

SimpleFactor_get_lhs(x) ==
    LET entities_ == Embedding(entities, Col(x, 0))
        relations_ == Embedding(relations, Col(x, 1))
    IN  IF entities_.err \/ relations_.err THEN Raise
        ELSE Ok(tf_multiply(entities_.val, relations_.val))

SimpleFactor_similarity_score_inherited(l, r, a) ==
    CFEuclideanBase_similarity_score(l, r, a)

SimpleFactor_similarity_score(l, r, a) ==
    IF a THEN tf_matmul_transpose(l, r)
    ELSE tf_reduce_sum(tf_multiply(l, r))

(* ------------------------------- TransE -------------------------------- *)
TransE_get_lhs_multiply(x) ==
    LET entities_ == Embedding(entities, Col(x, 0))
        relations_ == Embedding(relations, Col(x, 1))
    IN  IF entities_.err \/ relations_.err THEN Raise
        ELSE Ok(tf_multiply(entities_.val, relations_.val))

TransE_get_lhs(x) ==
    LET entities_ == Embedding(entities, Col(x, 0))
        relations_ == Embedding(relations, Col(x, 1))
    IN  IF entities_.err \/ relations_.err THEN Raise
        ELSE Ok(tf_add(entities_.val, relations_.val))

(* ---------------------------- MuREuclidean ----------------------------- *)
MuREuclidean_get_lhs(x) ==
    LET heads == Embedding(entities, Col(x, 0))
        relation_transforms == Embedding(transforms, Col(x, 1))
    IN  IF heads.err \/ relation_transforms.err THEN Raise
        ELSE Ok(tf_multiply(relation_transforms.val, heads.val))

MuREuclidean_get_rhs_inherited(x) == CFEuclideanBase_get_rhs(x)

MuREuclidean_get_rhs(x) ==
    LET tails == Embedding(entities, Col(x, -1))
        relation_additions == Embedding(relations, Col(x, 1))
    IN  IF tails.err \/ relation_additions.err THEN Raise
        ELSE Ok(tf_add(tails.val, relation_additions.val))

(* --------------------------- RotRefEuclidean --------------------------- *)
(* A Givens-style rotation of v by the relation's parameters p, two        *)
(* coordinates at a time (an unpaired last coordinate is scaled).          *)
Rotate(p, v) ==
    [k \in 1..Len(v) |->
        IF k % 2 = 1
        THEN IF k = Len(v) THEN p[k] * v[k]
             ELSE p[k] * v[k] - p[k + 1] * v[k + 1]
        ELSE p[k - 1] * v[k] + p[k] * v[k - 1]]

(* RotRefBase.get_heads: the head embeddings transformed by the relation.  *)
RotRefBase_get_heads(x) ==
    LET heads == Embedding(entities, Col(x, 0))
        params == Embedding(transforms, Col(x, 1))
    IN  IF heads.err \/ params.err THEN Raise
        ELSE Ok([i \in 1..Len(x) |-> Rotate(params.val[i], heads.val[i])])

RotRefEuclidean_get_lhs(x) ==
    LET head_embeds == RotRefBase_get_heads(x)
        rel_embeds == Embedding(relations, Col(x, 1))
    IN  IF head_embeds.err \/ rel_embeds.err THEN Raise
        ELSE Ok(tf_add(head_embeds.val, rel_embeds.val))

(* ------------------------ UserAttentiveEuclidean ----------------------- *)
(* UserAttentiveBase.get_lhs: the user's (head's) embedding.               *)
UserAttentiveBase_get_lhs(x) == Embedding(entities, Col(x, 0))

(* UserAttentiveBase's right-hand side: the tail of each row, or, with     *)
(* all_items, for each row its own view of every item (B1 x B2 x dims).    *)
UserAttentiveBase_get_rhs(x, a) ==
    IF ~a THEN Embedding(entities, Col(x, -1))
    ELSE LET rels == Embedding(relations, Col(x, 1))
         IN  IF rels.err THEN Raise
             ELSE Ok([i \in 1..Len(x) |-> [j \in 1..NEntities |->
                      [k \in 1..Dims |-> entities[j - 1][k] + rels.val[i][k]]]])

UserAttentiveEuclidean_similarity_score_unnegated(l, r, a) ==
    IF a THEN euclidean_sq_distance_batched_all_pairs(l, r)
    ELSE Neg(euclidean_sq_distance(l, r, FALSE))

UserAttentiveEuclidean_similarity_score(l, r, a) ==
    IF a THEN Neg(euclidean_sq_distance_batched_all_pairs(l, r))
    ELSE Neg(euclidean_sq_distance(l, r, FALSE))

(* ------------------- method resolution per model class ----------------- *)
get_lhs(m, x) ==
    CASE m = "SimpleFactor" -> SimpleFactor_get_lhs(x)
      [] m = "TransE" -> TransE_get_lhs(x)
      [] m = "MuREuclidean" -> MuREuclidean_get_lhs(x)
      [] m = "RotRefEuclidean" -> RotRefEuclidean_get_lhs(x)
      [] m = "UserAttentiveEuclidean" -> UserAttentiveBase_get_lhs(x)

get_rhs(m, x, a) ==
    CASE m = "MuREuclidean" -> MuREuclidean_get_rhs(x)
      [] m = "UserAttentiveEuclidean" -> UserAttentiveBase_get_rhs(x, a)
      [] OTHER -> CFEuclideanBase_get_rhs(x)

similarity_score(m, l, r, a) ==
    CASE m = "SimpleFactor" -> SimpleFactor_similarity_score(l, r, a)
      [] m = "UserAttentiveEuclidean" ->
             UserAttentiveEuclidean_similarity_score(l, r, a)
      [] OTHER -> CFEuclideanBase_similarity_score(l, r, a)

(* ------------------------------ the driver ----------------------------- *)
Init ==
    /\ model \in Models
    /\ entities = InitEntities
    /\ relations = InitRelations
    /\ transforms = IF HasTransforms(model) THEN InitTransforms ELSE <<>>
    /\ steps = 0
    /\ pc = "idle"
    /\ input_tensor = <<>>
    /\ all_items = FALSE
    /\ lhs = <<>>
    /\ rhs = <<>>
    /\ score = <<>>

(* The driver starts a forward pass on a batch: get_lhs(input_tensor).     *)
GetLhs ==
    /\ pc = "idle"
    /\ \E x \in Batches, a \in BOOLEAN :
          LET res == get_lhs(model, x)
          IN  /\ input_tensor' = x
              /\ all_items' = a
              /\ lhs' = res.val
              /\ pc' = IF res.err THEN "error" ELSE "lhs"
    /\ rhs' = <<>>
    /\ score' = <<>>
    /\ UNCHANGED <<model, entities, relations, transforms, steps>>

GetRhs_caching ==
    /\ pc = "lhs"
    /\ LET res == get_rhs(model, input_tensor, all_items)
       IN  /\ rhs' = res.val
           /\ pc' = IF res.err THEN "error" ELSE "rhs"
           /\ entities' = IF res.err \/ (model = "UserAttentiveEuclidean" /\ all_items)
                          THEN entities
                          ELSE [entities EXCEPT ![0] = res.val[1]]
    /\ UNCHANGED <<model, relations, transforms, steps,
                   input_tensor, all_items, lhs, score>>

(* get_rhs(input_tensor) on the batch of the pass.                         *)
GetRhs ==
    /\ pc = "lhs"
    /\ LET res == get_rhs(model, input_tensor, all_items)
       IN  /\ rhs' = res.val
           /\ pc' = IF res.err THEN "error" ELSE "rhs"
    /\ UNCHANGED <<model, entities, relations, transforms, steps,
                   input_tensor, all_items, lhs, score>>

(* similarity_score(lhs, rhs, all_items) on the two results.               *)
SimilarityScore ==
    /\ pc = "rhs"
    /\ score' = similarity_score(model, lhs, rhs, all_items)
    /\ pc' = "scored"
    /\ UNCHANGED <<model, entities, relations, transforms, steps,
                   input_tensor, all_items, lhs, rhs>>

(* The pass ends: the scores are returned to the driver, or the error of a *)
(* lookup propagates to it; the tensors of the pass are dropped.           *)
EndPass ==
    /\ pc \in {"scored", "error"}
    /\ pc' = "idle"
    /\ input_tensor' = <<>>
    /\ all_items' = FALSE
    /\ lhs' = <<>>
    /\ rhs' = <<>>
    /\ score' = <<>>
    /\ UNCHANGED <<model, entities, relations, transforms, steps>>

(* The external optimizer's step between two passes: one row of one table  *)
(* moves by a gradient.                                                    *)
Gradients ==
    { [k \in 1..Dims |-> IF k % 2 = 1 THEN g ELSE 0 - g] : g \in {0 - 1, 1} }

Apply(table, id, grad) ==
    [table EXCEPT ![id] = [k \in 1..Dims |-> table[id][k] - grad[k]]]

OptimizerStep ==
    /\ pc = "idle"
    /\ steps < MaxSteps
    /\ \E grad \in Gradients :
       \/ \E e \in DOMAIN entities :
            /\ entities' = Apply(entities, e, grad)
            /\ UNCHANGED <<relations, transforms>>
       \/ \E r \in DOMAIN relations :
            /\ relations' = Apply(relations, r, grad)
            /\ UNCHANGED <<entities, transforms>>
       \/ \E r \in DOMAIN transforms :
            /\ transforms' = Apply(transforms, r, grad)
            /\ UNCHANGED <<entities, relations>>
    /\ steps' = steps + 1
    /\ UNCHANGED <<model, pc, input_tensor, all_items, lhs, rhs, score>>

Next == GetLhs \/ GetRhs \/ SimilarityScore \/ EndPass \/ OptimizerStep

Spec == Init /\ [][Next]_vars

(* ------------------------------ properties ----------------------------- *)
B == Len(input_tensor)
HeadOf(i) == input_tensor[i][1]
RelOf(i) == input_tensor[i][2]
TailOf(i) == input_tensor[i][3]

(* The squared Euclidean distance of two vectors, summed term by term.     *)
SqDist(u, v) == SumSeq([k \in 1..Dims |-> (u[k] - v[k]) * (u[k] - v[k])])

IsBatchOfVectors(t, n) == Len(t) = n /\ \A i \in 1..n : Len(t[i]) = Dims

ValidEntity(id) == id \in 0..(NEntities - 1)
ValidRelation(id) == id \in 0..(NRelations - 1)

(* The ids get_lhs and get_rhs look up, per model class.                   *)
LhsIdsValid ==
    \A i \in 1..B :
        /\ ValidEntity(HeadOf(i))
        /\ model # "UserAttentiveEuclidean" => ValidRelation(RelOf(i))

RhsIdsValid ==
    \A i \in 1..B :
        IF model = "UserAttentiveEuclidean" /\ all_items
        THEN ValidRelation(RelOf(i))
        ELSE /\ ValidEntity(TailOf(i))
             /\ model = "MuREuclidean" => ValidRelation(RelOf(i))

(* C1: for a batch of rows (h, r, t) with valid ids, TransE's score of row *)
(* i, with all_items false, is the one value                               *)
(* -|entities[h] + relations[r] - entities[t]|^2: the embeddings are used  *)
(* as stored (no normalisation) and the distance is squared (no root).     *)
C1_TransEScore ==
    (model = "TransE" /\ pc = "scored" /\ ~all_items) =>
        /\ Len(score) = B
        /\ \A i \in 1..B :
              score[i] =
                << 0 - SqDist([k \in 1..Dims |-> entities[HeadOf(i)][k]
                                                 + relations[RelOf(i)][k]],
                              entities[TailOf(i)]) >>

C1_Witness ==
    /\ model = "TransE" /\ pc = "scored" /\ ~all_items
    /\ B = MaxBatch /\ steps > 0
    /\ \E i \in 1..B : score[i][1] < 0 - 1

(* C2: a get_lhs, get_rhs or similarity_score call of any model leaves the *)
(* entity, relation and transform tables as they were; a step that changes *)
(* a table is a step of the optimizer.                                     *)
C2_TablesReadOnly ==
    [][ /\ pc' # "idle" => tables' = tables
        /\ tables' # tables => steps' = steps + 1 ]_vars

C2_Witness ==
    /\ pc = "scored" /\ steps > 0
    /\ model = "RotRefEuclidean"
    /\ entities # InitEntities

(* C3: a call that looks up an id outside its table ends in the error: the *)
(* failing call returns no vector, no score is computed for the batch, and *)
(* the step into the error leaves the tables unchanged.                    *)
C3_OutOfRangeRaises ==
    /\ [](pc # "idle" =>
            /\ ~LhsIdsValid =>
                  pc = "error" /\ Len(lhs) = 0 /\ Len(rhs) = 0 /\ Len(score) = 0
            /\ (LhsIdsValid /\ ~RhsIdsValid) =>
                  pc \in {"lhs", "error"} /\ Len(rhs) = 0 /\ Len(score) = 0)
    /\ [][pc' = "error" => tables' = tables]_vars

C3_Witness ==
    /\ pc = "error" /\ model = "TransE"
    /\ LhsIdsValid /\ ~RhsIdsValid
    /\ Len(lhs) = B /\ Len(rhs) = 0

C5_UserAttentiveScore ==
    (model = "UserAttentiveEuclidean" /\ pc = "scored") =>
        /\ Len(score) = Len(lhs)
        /\ \A i \in 1..Len(lhs) :
              IF all_items
              THEN /\ Len(score[i]) = Len(rhs[i])
                   /\ \A j \in 1..Len(rhs[i]) :
                         score[i][j] = 0 - SqDist(lhs[i], rhs[i][j])
              ELSE score[i] = << 0 - SqDist(lhs[i], rhs[i]) >>

C5_Witness ==
    /\ model = "UserAttentiveEuclidean" /\ pc = "scored" /\ all_items
    /\ Len(lhs) = MaxBatch
    /\ Len(rhs[1]) > 1
    /\ rhs[1] # rhs[2]
    /\ score[1][1] < 0

(* C6: for a batch of rows (h, r, t) with valid ids, SimpleFactor's score  *)
(* of row i, with all_items false, is the one value                        *)
(* sum_k entities[h][k] * relations[r][k] * entities[t][k].                *)
C6_SimpleFactorScore ==
    (model = "SimpleFactor" /\ pc = "scored" /\ ~all_items) =>
        /\ Len(score) = B
        /\ \A i \in 1..B :
              score[i] =
                << SumSeq([k \in 1..Dims |-> entities[HeadOf(i)][k]
                                             * relations[RelOf(i)][k]
                                             * entities[TailOf(i)][k]]) >>

(* A pass whose dot-product score differs from the negative squared        *)
(* distance of the same two sides.                                         *)
C6_Witness ==
    /\ model = "SimpleFactor" /\ pc = "scored" /\ ~all_items
    /\ B = MaxBatch
    /\ score[1][1] # 0 - SqDist(lhs[1], rhs[1])
    /\ score[1][1] > 0

(* C7: for a batch of rows (h, r, t) with valid ids, MuREuclidean's        *)
(* get_rhs gives entities[t] + relations[r] and its score of row i, with   *)
(* all_items false, is                                                     *)
(* -|transforms[r] * entities[h] - (entities[t] + relations[r])|^2.        *)
C7_MuRScore ==
    model = "MuREuclidean" =>
        /\ pc \in {"rhs", "scored"} =>
              \A i \in 1..B :
                  rhs[i] = [k \in 1..Dims |-> entities[TailOf(i)][k]
                                              + relations[RelOf(i)][k]]
        /\ (pc = "scored" /\ ~all_items) =>
              /\ Len(score) = B
              /\ \A i \in 1..B :
                    score[i] =
                      << 0 - SqDist([k \in 1..Dims |-> transforms[RelOf(i)][k]
                                                       * entities[HeadOf(i)][k]],
                                    [k \in 1..Dims |-> entities[TailOf(i)][k]
                                                       + relations[RelOf(i)][k]]) >>

(* A scored pass of two rows with different relations, whose right-hand   *)
(* sides are their tails moved by different translations.                  *)
C7_Witness ==
    /\ model = "MuREuclidean" /\ pc = "scored" /\ ~all_items
    /\ B = 2 /\ steps > 0
    /\ RelOf(1) # RelOf(2)
    /\ rhs[1] # entities[TailOf(1)]
    /\ \E k \in 1..Dims :
          rhs[1][k] - entities[TailOf(1)][k] # rhs[2][k] - entities[TailOf(2)][k]

====
